---- MODULE Spec2Model ----
(***************************************************************************)
(* Model of the `est` extension crate: MapExt::replace_key for HashMap,    *)
(* BTreeMap and IndexMap (src/src/collections.rs) and                      *)
(* CloseAndWait::close_and_wait for TaskTracker (src/src/task.rs).         *)
(*                                                                         *)
(* Keys are the integers 1..NumKeys (they stand for "k1", "k2", ...), so   *)
(* that Ord is available for the BTreeMap variant.  Indices are 0-based as *)
(* in the Rust code: the entry at index i of a sequence s is s[i + 1].     *)
(***************************************************************************)
EXTENDS Integers, Sequences, FiniteSets, TLC

\* ---- bounds -------------------------------------------------------------
NumKeys == 4
MaxLen == 3
MaxTasks == 3

Keys == 1..NumKeys
\* The values the tests store.
Values == {123, 456}
Tasks == 1..MaxTasks

Kinds == {"HashMap", "BTreeMap", "IndexMap"}

\* Option<T>: None is the empty tuple, Some(x) is the one-element tuple.
None == <<>>
Some(x) == <<x>>

\* ReplaceKeyErr (plus the Ok(()) of the Result).
ReplaceKeyErr == {"OldKeyNotExist", "NewKeyOccupied"}

\* Outcome of one replace_key call: the container afterwards, the returned
\* Result, and which trap (panic or dead branch) was hit, if any.
Ret(m, r) == [map |-> m, res |-> r, trap |-> "none"]
Trap(m, r, t) == [map |-> m, res |-> r, trap |-> t]

\* ---- std::collections::HashMap: a function from a set of keys ------------
HashMap_contains_key(m, k) == k \in DOMAIN m

HashMap_remove_Keep(m, k) ==
  IF k \in DOMAIN m THEN [map |-> m, v |-> Some(m[k])] ELSE [map |-> m, v |-> None]

HashMap_remove(m, k) ==
  IF k \in DOMAIN m
    THEN [map |-> [x \in DOMAIN m \ {k} |-> m[x]], v |-> Some(m[k])]
    ELSE [map |-> m, v |-> None]

HashMap_insert_Drop(m, k, v) == m

HashMap_insert(m, k, v) ==
  [x \in DOMAIN m \cup {k} |-> IF x = k THEN v ELSE m[x]]

HashMap_replace_key_EqFirst(self, k1, k2) ==
  IF k1 = k2 THEN Ret(self, "Ok")
  ELSE IF ~HashMap_contains_key(self, k1) THEN Ret(self, "OldKeyNotExist")
  ELSE IF HashMap_contains_key(self, k2) THEN Ret(self, "NewKeyOccupied")
  ELSE LET r == HashMap_remove(self, k1) IN
       IF r.v = None THEN Trap(r.map, "panic", "expect")
       ELSE Ret(HashMap_insert(r.map, k2, r.v[1]), "Ok")

HashMap_replace_key(self, k1, k2) ==
  IF ~HashMap_contains_key(self, k1) THEN Ret(self, "OldKeyNotExist")
  ELSE IF k1 = k2 THEN Ret(self, "Ok")
  ELSE IF HashMap_contains_key(self, k2) THEN Ret(self, "NewKeyOccupied")
  ELSE LET r == HashMap_remove(self, k1) IN
       IF r.v = None THEN Trap(r.map, "panic", "expect")
       ELSE Ret(HashMap_insert(r.map, k2, r.v[1]), "Ok")

\* ---- std::collections::BTreeMap: a sequence of <<k, v>> sorted by key ----
SeqIndexOf(s, k) == CHOOSE i \in 1..Len(s) : s[i][1] = k
SeqHasKey(s, k) == \E i \in 1..Len(s) : s[i][1] = k
RemoveAt(s, p) == [j \in 1..(Len(s) - 1) |-> IF j < p THEN s[j] ELSE s[j + 1]]
InsertAt(s, p, e) ==
  [j \in 1..(Len(s) + 1) |-> IF j < p THEN s[j] ELSE IF j = p THEN e ELSE s[j - 1]]

BTreeMap_contains_key(m, k) == SeqHasKey(m, k)

BTreeMap_remove(m, k) ==
  IF SeqHasKey(m, k)
    THEN LET p == SeqIndexOf(m, k) IN [map |-> RemoveAt(m, p), v |-> Some(m[p][2])]
    ELSE [map |-> m, v |-> None]

BTreeMap_insert(m, k, v) ==
  IF SeqHasKey(m, k)
    THEN [m EXCEPT ![SeqIndexOf(m, k)] = <<k, v>>]
    ELSE InsertAt(m, Cardinality({i \in 1..Len(m) : m[i][1] < k}) + 1, <<k, v>>)

BTreeMap_replace_key_NoOccupancy(self, k1, k2) ==
  IF ~BTreeMap_contains_key(self, k1) THEN Ret(self, "OldKeyNotExist")
  ELSE IF k1 = k2 THEN Ret(self, "Ok")
  ELSE LET r == BTreeMap_remove(self, k1) IN
       IF r.v = None THEN Trap(r.map, "panic", "expect")
       ELSE Ret(BTreeMap_insert(r.map, k2, r.v[1]), "Ok")

BTreeMap_replace_key(self, k1, k2) ==
  IF ~BTreeMap_contains_key(self, k1) THEN Ret(self, "OldKeyNotExist")
  ELSE IF k1 = k2 THEN Ret(self, "Ok")
  ELSE IF BTreeMap_contains_key(self, k2) THEN Ret(self, "NewKeyOccupied")
  ELSE LET r == BTreeMap_remove(self, k1) IN
       IF r.v = None THEN Trap(r.map, "panic", "expect")
       ELSE Ret(BTreeMap_insert(r.map, k2, r.v[1]), "Ok")

\* ---- indexmap::IndexMap: a sequence of <<k, v>> in insertion order -------
IndexMap_contains_key(s, k) == SeqHasKey(s, k)

IndexMap_get_index_of(s, k) ==
  IF SeqHasKey(s, k) THEN Some(SeqIndexOf(s, k) - 1) ELSE None

\* Removes the entry at index i by shifting the following entries down.
IndexMap_swap_remove_index_Shift(s, i) ==
  IF i >= Len(s) THEN [map |-> s, e |-> None]
  ELSE [map |-> RemoveAt(s, i + 1), e |-> Some(s[i + 1])]

\* Removes the entry at index i; the last entry takes its place.
IndexMap_swap_remove_index(s, i) ==
  IF i >= Len(s) THEN [map |-> s, e |-> None]
  ELSE LET n == Len(s) IN
       [map |-> [j \in 1..(n - 1) |-> IF j = i + 1 THEN s[n] ELSE s[j]],
        e |-> Some(s[i + 1])]

IndexMap_insert_full_OffByOne(s, k, v) ==
  IF SeqHasKey(s, k)
    THEN LET p == SeqIndexOf(s, k) IN
         [map |-> [s EXCEPT ![p] = <<k, v>>], j |-> p - 1, old |-> Some(s[p][2])]
    ELSE [map |-> Append(s, <<k, v>>), j |-> Len(s) + 1, old |-> None]

\* Inserts at the end (or overwrites in place); returns the entry's index.
IndexMap_insert_full(s, k, v) ==
  IF SeqHasKey(s, k)
    THEN LET p == SeqIndexOf(s, k) IN
         [map |-> [s EXCEPT ![p] = <<k, v>>], j |-> p - 1, old |-> Some(s[p][2])]
    ELSE [map |-> Append(s, <<k, v>>), j |-> Len(s), old |-> None]

IndexMap_swap_indices_Noop(s, a, b) ==
  IF a >= Len(s) \/ b >= Len(s) THEN [map |-> s, ok |-> FALSE]
  ELSE [map |-> s, ok |-> TRUE]

\* Swaps the entries at indices a and b; panics when one is out of bounds.
IndexMap_swap_indices(s, a, b) ==
  IF a >= Len(s) \/ b >= Len(s) THEN [map |-> s, ok |-> FALSE]
  ELSE [map |-> [j \in 1..Len(s) |->
                   IF j = a + 1 THEN s[b + 1] ELSE IF j = b + 1 THEN s[a + 1] ELSE s[j]],
        ok |-> TRUE]

\* Lines 107-116: swap_remove_index, insert_full, swap_indices.
IndexMap_rename_at(self, i, k2) ==
  LET r == IndexMap_swap_remove_index(self, i) IN
  IF r.e = None THEN Trap(r.map, "OldKeyNotExist", "unreachable_return")
  ELSE LET ins == IndexMap_insert_full(r.map, k2, r.e[1][2])
           sw == IndexMap_swap_indices(ins.map, i, ins.j)
       IN IF sw.ok THEN Ret(sw.map, "Ok") ELSE Trap(sw.map, "panic", "swap_indices")

IndexMap_replace_key_NoEq(self, k1, k2) ==
  LET g == IndexMap_get_index_of(self, k1) IN
  IF g = None THEN Ret(self, "OldKeyNotExist")
  ELSE IF IndexMap_contains_key(self, k2) THEN Ret(self, "NewKeyOccupied")
  ELSE IndexMap_rename_at(self, g[1], k2)

IndexMap_replace_key_Overwrite(self, k1, k2) ==
  LET g == IndexMap_get_index_of(self, k1) IN
  IF g = None THEN Ret(self, "OldKeyNotExist")
  ELSE IF k1 = k2 THEN Ret(self, "Ok")
  ELSE IndexMap_rename_at(self, g[1], k2)

IndexMap_replace_key(self, k1, k2) ==
  LET g == IndexMap_get_index_of(self, k1) IN
  IF g = None THEN Ret(self, "OldKeyNotExist")
  ELSE IF k1 = k2 THEN Ret(self, "Ok")
  ELSE IF IndexMap_contains_key(self, k2) THEN Ret(self, "NewKeyOccupied")
  ELSE IndexMap_rename_at(self, g[1], k2)

\* ---- tokio_util::task::TaskTracker and CloseAndWait -----------------------
TaskTracker_new == [closed |-> FALSE, tasks |-> [t \in Tasks |-> "new"]]
TaskTracker_spawn(tr, t) == [tr EXCEPT !.tasks[t] = "running"]
TaskTracker_close(tr) == [tr EXCEPT !.closed = TRUE]
TaskTracker_is_empty(tr) == \A t \in Tasks : tr.tasks[t] # "running"
\* wait() hands out a future that has not been polled yet.
TaskTracker_wait(tr) == "pending"
\* Polling a wait future: ready once the tracker is closed and empty.
WaitFuture_poll(tr) ==
  IF tr.closed /\ TaskTracker_is_empty(tr) THEN "ready" ELSE "pending"

close_and_wait_NoClose(self) ==
  [tracker |-> self, fut |-> TaskTracker_wait(self)]

close_and_wait(self) ==
  LET t1 == TaskTracker_close(self) IN
  [tracker |-> t1, fut |-> TaskTracker_wait(t1)]

\* ---- trait MapExt ---------------------------------------------------------
\* The methods the trait declares.
MapExtMethods == {"replace_key"}

\* Dispatch of a trait method to the impl for the container's type.
MapExt_call(op, knd, self, k1, k2) ==
  CASE op = "replace_key" /\ knd = "HashMap" -> HashMap_replace_key(self, k1, k2)
    [] op = "replace_key" /\ knd = "BTreeMap" -> BTreeMap_replace_key(self, k1, k2)
    [] op = "replace_key" /\ knd = "IndexMap" -> IndexMap_replace_key(self, k1, k2)

\* Observers used to state the properties (contains_key, index [], len,
\* get_index_of of the container's own type).
Contains(knd, m, k) ==
  IF knd = "HashMap" THEN HashMap_contains_key(m, k) ELSE SeqHasKey(m, k)
Get(knd, m, k) ==
  IF knd = "HashMap" THEN m[k] ELSE m[SeqIndexOf(m, k)][2]
Size(knd, m) ==
  IF knd = "HashMap" THEN Cardinality(DOMAIN m) ELSE Len(m)
KeysOf(knd, m) == {k \in Keys : Contains(knd, m, k)}

\* ---- containers a caller can hand in --------------------------------------
DistinctKeys(s) == \A i, j \in 1..Len(s) : i # j => s[i][1] # s[j][1]
SortedKeys(s) == \A i, j \in 1..Len(s) : i < j => s[i][1] < s[j][1]
PairSeqs == UNION {[1..n -> Keys \X Values] : n \in 0..MaxLen}

AllMaps(knd) ==
  CASE knd = "HashMap" -> UNION {[S -> Values] : S \in {T \in SUBSET Keys : Cardinality(T) <= MaxLen}}
    [] knd = "BTreeMap" -> {s \in PairSeqs : SortedKeys(s)}
    [] knd = "IndexMap" -> {s \in PairSeqs : DistinctKeys(s)}

\* ---- state ----------------------------------------------------------------
VARIABLES
  kind,     \* the container's type
  map,      \* the container (self)
  len0,     \* number of entries the container had when it was handed in
  last,     \* the last replace_key call: arguments, Result, container before
  undo,     \* Some(container before the previous call) when the last call
            \* swaps the keys of the successful rename made by the previous
            \* call, None otherwise
  tracker,  \* the TaskTracker: its closed flag and the state of each task
            \* ("new": not spawned, "running": tracked, "done": finished)
  waitFut,  \* future returned by a plain tracker.wait()
  cawFut    \* future returned by tracker.close_and_wait()

mapVars == <<kind, map, len0, last, undo>>
trackerVars == <<tracker, waitFut, cawFut>>
vars == <<kind, map, len0, last, undo, tracker, waitFut, cawFut>>

NoCall == [op |-> "none", k1 |-> 0, k2 |-> 0, res |-> "none", trap |-> "none",
           before |-> <<>>]

MapInit ==
  /\ kind \in Kinds
  /\ map \in AllMaps(kind)
  /\ len0 = Size(kind, map)
  /\ last = NoCall
  /\ undo = None

TrackerInit ==
  /\ tracker = TaskTracker_new
  /\ waitFut = "none"
  /\ cawFut = "none"

Init == MapInit /\ TrackerInit

\* One call map.replace_key(&k1, k2) on the container.
Call(knd, k1, k2) ==
  /\ kind = knd
  /\ last.res # "panic"
  /\ \E op \in MapExtMethods :
       LET out == MapExt_call(op, knd, map, k1, k2) IN
       /\ map' = out.map
       /\ last' = [op |-> op, k1 |-> k1, k2 |-> k2, res |-> out.res,
                   trap |-> out.trap, before |-> map]
  /\ undo' = IF last.res = "Ok" /\ last.k1 # last.k2 /\ k1 = last.k2 /\ k2 = last.k1
              THEN Some(last.before)
              ELSE None
  /\ UNCHANGED <<kind, len0>>
  /\ UNCHANGED trackerVars

HashMapReplaceKey == \E k1, k2 \in Keys : Call("HashMap", k1, k2)
BTreeMapReplaceKey == \E k1, k2 \in Keys : Call("BTreeMap", k1, k2)
IndexMapReplaceKey == \E k1, k2 \in Keys : Call("IndexMap", k1, k2)

Next == HashMapReplaceKey \/ BTreeMapReplaceKey \/ IndexMapReplaceKey

Spec == Init /\ [][Next]_vars

\* ---- properties of replace_key ---------------------------------------------
Called == last.res # "none"
OldIn == Contains(kind, last.before, last.k1)
NewIn == Contains(kind, last.before, last.k2)
Renamed == Called /\ last.k1 # last.k2 /\ OldIn /\ ~NewIn

TypeOK ==
  /\ kind \in Kinds
  /\ map \in AllMaps(kind)
  /\ last.res \in {"none", "Ok", "panic"} \cup ReplaceKeyErr

\* C1: for k1 # k2 with k1 in C and k2 not in C, replace_key returns Ok;
\* afterwards k2 is in C with the value k1 had, and k1 is not in C.
C1_RenameMovesValue ==
  Renamed =>
    /\ last.res = "Ok"
    /\ Contains(kind, map, last.k2)
    /\ Get(kind, map, last.k2) = Get(kind, last.before, last.k1)
    /\ ~Contains(kind, map, last.k1)

C1_Witness == Renamed /\ kind = "BTreeMap" /\ Size(kind, last.before) = 2

\* C2: when k1 is not in C, replace_key fails with OldKeyNotExist for every k2
\* (also k2 = k1 and k2 in C) and C is unchanged.
C2_OldKeyAbsent ==
  (Called /\ ~OldIn) => (last.res = "OldKeyNotExist" /\ map = last.before)

C2_Witness ==
  Called /\ ~OldIn /\ NewIn /\ kind = "HashMap"

\* C3: when k1 # k2 are both in C, replace_key fails with NewKeyOccupied and C
\* is unchanged (keys, values and, for IndexMap, indices).
C3_NewKeyOccupied ==
  (Called /\ last.k1 # last.k2 /\ OldIn /\ NewIn) =>
    (last.res = "NewKeyOccupied" /\ map = last.before)

C3_Witness ==
  Called /\ last.k1 # last.k2 /\ OldIn /\ NewIn /\ kind = "IndexMap"

\* C4: when k1 is in C and k2 = k1, replace_key returns Ok and C is unchanged.
C4_SameKeyNoop ==
  (Called /\ last.k1 = last.k2 /\ OldIn) => (last.res = "Ok" /\ map = last.before)

C4_Witness ==
  Called /\ last.k1 = last.k2 /\ OldIn /\ kind = "IndexMap" /\ Len(map) = 2

\* C5: in an IndexMap, after a successful rename the entry (k2, old value of
\* k1) is at the index k1 held before the call, whatever that index was.
C5_IndexPreserved ==
  (kind = "IndexMap" /\ Renamed /\ last.res = "Ok") =>
    LET i == IndexMap_get_index_of(last.before, last.k1)[1] IN
    /\ IndexMap_get_index_of(map, last.k2) = Some(i)
    /\ map[i + 1] = <<last.k2, last.before[i + 1][2]>>
    /\ (i < Len(last.before) - 1 => map[Len(map)][1] # last.k2)

C5_Witness ==
  /\ kind = "IndexMap" /\ Renamed /\ last.res = "Ok"
  /\ Len(last.before) = 3
  /\ IndexMap_get_index_of(last.before, last.k1) = Some(1)

\* C6: a successful replace_key alters no entry other than the renamed one:
\* every other key keeps its value and, in an IndexMap, its index.
C6_OthersUntouched ==
  (Called /\ last.res = "Ok") =>
    /\ KeysOf(kind, map) = (KeysOf(kind, last.before) \ {last.k1}) \cup {last.k2}
    /\ \A k \in KeysOf(kind, last.before) \ {last.k1} :
         /\ Get(kind, map, k) = Get(kind, last.before, k)
         /\ kind = "IndexMap" =>
              IndexMap_get_index_of(map, k) = IndexMap_get_index_of(last.before, k)

C6_Witness ==
  /\ kind = "IndexMap" /\ Renamed /\ last.res = "Ok"
  /\ Len(last.before) = 3
  /\ IndexMap_get_index_of(last.before, last.k1) = Some(0)

C9_NoPanic == last.res # "panic" /\ last.trap = "none"

C9_Witness ==
  kind = "IndexMap" /\ Renamed /\ last.res = "Ok" /\ Len(last.before) = 1

\* C10: replace_key(C, k1, k2) followed by replace_key(C, k2, k1) returns Ok
\* twice and restores C (with every index, for IndexMap); the number of
\* entries never changes.
C10_Reversible ==
  /\ Size(kind, map) = len0
  /\ undo # None => (last.res = "Ok" /\ map = undo[1])

C10_Witness ==
  undo # None /\ kind = "IndexMap" /\ Len(map) = 3 /\ map[1][1] = last.k2

\* ---- the task tracker as a state machine ----------------------------------
TrackerOnlyInit ==
  /\ kind = "HashMap"
  /\ map = <<>>
  /\ len0 = 0
  /\ last = NoCall
  /\ undo = None
  /\ TrackerInit

\* tracker.spawn(async move { i })
Spawn(t) ==
  /\ tracker.tasks[t] = "new"
  /\ tracker' = TaskTracker_spawn(tracker, t)
  /\ UNCHANGED <<waitFut, cawFut>>
  /\ UNCHANGED mapVars

\* A spawned task runs to completion.
Finish(t) ==
  /\ tracker.tasks[t] = "running"
  /\ tracker' = [tracker EXCEPT !.tasks[t] = "done"]
  /\ UNCHANGED <<waitFut, cawFut>>
  /\ UNCHANGED mapVars

\* tracker.close()
Close ==
  /\ ~tracker.closed
  /\ tracker' = TaskTracker_close(tracker)
  /\ UNCHANGED <<waitFut, cawFut>>
  /\ UNCHANGED mapVars

\* tracker.wait()
Wait ==
  /\ waitFut = "none"
  /\ waitFut' = TaskTracker_wait(tracker)
  /\ UNCHANGED <<tracker, cawFut>>
  /\ UNCHANGED mapVars

\* tracker.close_and_wait()
CloseAndWait ==
  /\ cawFut = "none"
  /\ LET r == close_and_wait(tracker) IN
       /\ tracker' = r.tracker
       /\ cawFut' = r.fut
  /\ UNCHANGED waitFut
  /\ UNCHANGED mapVars

\* The runtime polls the future of wait().
PollWait ==
  /\ waitFut = "pending"
  /\ WaitFuture_poll(tracker) = "ready"
  /\ waitFut' = "ready"
  /\ UNCHANGED <<tracker, cawFut>>
  /\ UNCHANGED mapVars

\* The runtime polls the future of close_and_wait().
PollCloseAndWait ==
  /\ cawFut = "pending"
  /\ WaitFuture_poll(tracker) = "ready"
  /\ cawFut' = "ready"
  /\ UNCHANGED <<tracker, waitFut>>
  /\ UNCHANGED mapVars

SpawnTask == \E t \in Tasks : Spawn(t)
FinishTask == \E t \in Tasks : Finish(t)

TrackerNext ==
  \/ SpawnTask
  \/ FinishTask
  \/ Close
  \/ Wait
  \/ CloseAndWait
  \/ PollWait
  \/ PollCloseAndWait

\* The runtime runs every spawned task and polls an awaited future.
TrackerSpec ==
  /\ TrackerOnlyInit
  /\ [][TrackerNext]_vars
  /\ \A t \in Tasks : WF_vars(Finish(t))
  /\ WF_vars(PollCloseAndWait)
  /\ WF_vars(PollWait)

\* C8: close_and_wait closes the tracker when it is called, before its future
\* is polled; that future eventually completes, with every tracked task
\* finished; a wait on a tracker that is not closed does not complete, also
\* when all its tasks have finished.
C8_CloseAndWait ==
  /\ [](cawFut # "none" => tracker.closed)
  /\ [][(cawFut = "pending" /\ cawFut' = "ready") =>
          TaskTracker_is_empty(tracker)]_vars
  /\ [](~tracker.closed => waitFut # "ready")
  /\ (cawFut = "pending") ~> (cawFut = "ready")

C8_Witness ==
  /\ cawFut = "ready"
  /\ waitFut = "ready"
  /\ \A t \in Tasks : tracker.tasks[t] = "done"
====
